---- MODULE Spec2Model ----
(***************************************************************************)
(* Model of ros_kortex_vision/scripts/yolo_depth2.py (class YOLOv5ROSNode). *)
(*                                                                         *)
(* rospy runs the callbacks of the two subscribers on two threads, so      *)
(* depth_callback and image_callback interleave.  Every action below is    *)
(* one step of one callback holding at most one load or store of the       *)
(* shared fields self.depth_image / self.depth_encoding.                   *)
(*                                                                         *)
(* Numbers.  Distances are fixed point, one unit = 1e-6 m: a 16UC1 sample  *)
(* r (millimetres) times 0.001 is r * 1000 units; a 32FC1 sample is given  *)
(* in units already.  The intrinsics are in hundredths of a pixel.  The    *)
(* reprojection int(X * fx_depth / Z + cx_depth), X = (x - cx_rgb)*Z/fx_rgb *)
(* is computed exactly, as a truncated quotient of integers (Z cancels).   *)
(***************************************************************************)
EXTENDS Integers, Sequences, FiniteSets, TLC

VARIABLES
    depth_image,      \* self.depth_image: None or a frame [shape, data]
    depth_encoding,   \* self.depth_encoding: None or a string
    ingested,         \* history: some depth message was decoded and stored
    dpc,              \* depth_callback: position
    dmsg,             \* depth_callback: msg
    dlog,             \* depth_callback: levels logged by this invocation
    nDepth,           \* number of depth messages delivered so far
    ipc,              \* image_callback: position
    imsg,             \* image_callback: msg
    results,          \* image_callback: results.xyxy[0]
    idx,              \* image_callback: loop position in results
    depth_vis_colored,\* image_callback: is the local assigned?
    rendered_image,   \* image_callback: annotations drawn on rendered_image
    projected,        \* image_callback: <<detection, result>> per projection
    seen,             \* image_callback: values of self.depth_image it loaded
    published,        \* image_callback: calls of image_pub.publish
    ilog,             \* image_callback: levels logged by this invocation
    nImage,           \* number of colour messages delivered so far
    center_x_rgb,     \* project_rgb_to_depth: argument
    center_y_rgb,     \* project_rgb_to_depth: argument
    pseen,            \* project_rgb_to_depth: values of self.depth_image it loaded
    lookups,          \* project_rgb_to_depth: sample look-ups of this call
    Z,                \* project_rgb_to_depth: Z
    ret               \* project_rgb_to_depth: returned triple

dvars == <<dpc, dmsg, dlog, nDepth>>
store == <<depth_image, depth_encoding, ingested>>
pvars == <<center_x_rgb, center_y_rgb, pseen, lookups, Z, ret>>
ivars == <<ipc, imsg, results, idx, depth_vis_colored, rendered_image,
           projected, seen, published, ilog, nImage>>
vars == <<store, dvars, ivars, pvars>>

----------------------------------------------------------------------------
(* Bounds *)
MaxDepthMsgs == 2
MaxImages == 2

\* largest pixel coordinate for which the reprojection is evaluated
MaxPixel == 1279

\* Python's None, a raised exception, and None as the value of a string field
None == [type |-> "NoneType"]
Raise == [type |-> "Exception"]
NoEncoding == "None"

----------------------------------------------------------------------------
(* Constants of the program *)
fx_rgb == 129767
fy_rgb == 129863
cx_rgb == 62091
cy_rgb == 23828
fx_depth == 36001
fy_depth == 36001
cx_depth == 24387
cy_depth == 13792
MM_TO_M == 1000
CUP == 41

NoDepth == <<-1, -1, -1>>

----------------------------------------------------------------------------
(* Inputs *)

\* sensor_msgs/Image depth messages: encoding, height, width, data (row major)
DepthMsgs ==
    { [encoding |-> "16UC1", height |-> 1, width |-> 2, data |-> <<1500, 0>>],
      [encoding |-> "32FC1", height |-> 2, width |-> 1, data |-> <<2000000, -1000000>>],
      [encoding |-> "16UC1", height |-> 2, width |-> 2, data |-> <<700, 0, 65535, 3>>],
      [encoding |-> "8UC1",  height |-> 1, width |-> 1, data |-> <<7>>],
      [encoding |-> "32FC1", height |-> 2, width |-> 2, data |-> <<2500, 1, 0>>] }

\* one detection row of results.xyxy[0], coordinates already through int()
Det(x1, y1, x2, y2, cls) == [x1 |-> x1, y1 |-> y1, x2 |-> x2, y2 |-> y2, cls |-> cls]

\* colour messages: does bridge.imgmsg_to_cv2(msg, "bgr8") succeed, does
\* self.model(cv_image) succeed, and the rows of results.xyxy[0] it returns
ColourMsgs ==
    { [bgr8 |-> TRUE, model_ok |-> TRUE,
       xyxy |-> <<Det(0, 0, 1, 1, 41), Det(0, 0, 2, 2, 0)>>],
      [bgr8 |-> TRUE, model_ok |-> TRUE,
       xyxy |-> <<Det(0, 0, 2, 2, 41), Det(-3, 0, 1, 1, 41)>>],
      [bgr8 |-> TRUE, model_ok |-> TRUE,
       xyxy |-> <<Det(0, 0, 2, 2, 39), Det(1, 0, 2, 1, 41), Det(0, 1, 1, 2, 41)>>],
      [bgr8 |-> TRUE, model_ok |-> FALSE, xyxy |-> <<>>],
      [bgr8 |-> FALSE, model_ok |-> TRUE, xyxy |-> <<>>] }

----------------------------------------------------------------------------
(* cv_bridge and numpy *)

\* numpy reshape of the row-major buffer: element [y, x], 0-based
Reshape(msg, scale) ==
    [y \in 0 .. msg.height - 1 |->
        [x \in 0 .. msg.width - 1 |-> msg.data[y * msg.width + x + 1] * scale]]

\* bridge.imgmsg_to_cv2(msg, desired_encoding): raises when the buffer does
\* not hold height * width samples
imgmsg_to_cv2(msg) ==
    IF Len(msg.data) # msg.height * msg.width
    THEN Raise
    ELSE [type |-> "ndarray", shape |-> <<msg.height, msg.width>>,
          data |-> Reshape(msg, 1)]

\* variant of TimesMilli that leaves the samples in millimetres
TimesMilli_Unscaled(frame) ==
    [type |-> "ndarray", shape |-> frame.shape, data |-> frame.data]

\* array * 0.001
TimesMilli(frame) ==
    [type |-> "ndarray", shape |-> frame.shape,
     data |-> [y \in DOMAIN frame.data |->
                 [x \in DOMAIN frame.data[y] |-> frame.data[y][x] * MM_TO_M]]]

\* the value lines 38-44 assign to self.depth_image, or Raise
Decoded(msg) ==
    CASE msg.encoding = "16UC1" ->
            IF imgmsg_to_cv2(msg) = Raise THEN Raise
            ELSE TimesMilli(imgmsg_to_cv2(msg))
      [] msg.encoding = "32FC1" -> imgmsg_to_cv2(msg)
      [] OTHER -> None

----------------------------------------------------------------------------
(* depth_callback *)

\* rospy calls depth_callback(msg)
depth_callback_enter ==
    /\ dpc \in {"idle", "done"}
    /\ nDepth < MaxDepthMsgs
    /\ \E m \in DepthMsgs : dmsg' = m
    /\ dpc' = "L35"
    /\ dlog' = {}
    /\ nDepth' = nDepth + 1
    /\ UNCHANGED <<store, ivars, pvars>>

\* line 35: self.depth_encoding = msg.encoding
depth_callback_L35 ==
    /\ dpc = "L35"
    /\ depth_encoding' = dmsg.encoding
    /\ dpc' = "L38"
    /\ UNCHANGED <<depth_image, ingested, dmsg, dlog, nDepth, ivars, pvars>>

\* variant of depth_callback_L38 that updates the stored array in place,
\* shape first, so that the new shape is visible with the old samples
depth_callback_L38_InPlace ==
    /\ dpc = "L38"
    /\ LET img == Decoded([dmsg EXCEPT !.encoding = depth_encoding])
       IN  IF img = Raise
           THEN /\ dpc' = "L49"
                /\ UNCHANGED <<depth_image, ingested, dlog>>
           ELSE /\ depth_image' = IF img # None /\ depth_image # None
                                  THEN [img EXCEPT !.data = depth_image.data]
                                  ELSE img
                /\ ingested' = (ingested \/ img # None)
                /\ dlog' = IF img = None THEN dlog \cup {"warn"} ELSE dlog
                /\ dpc' = "L46"
    /\ UNCHANGED <<depth_encoding, dmsg, nDepth, ivars, pvars>>

\* lines 38-44: decode and store, or warn and clear
depth_callback_L38 ==
    /\ dpc = "L38"
    /\ LET enc == depth_encoding
           img == Decoded([dmsg EXCEPT !.encoding = enc])
       IN  IF img = Raise
           THEN /\ dpc' = "L49"
                /\ UNCHANGED <<depth_image, ingested, dlog>>
           ELSE /\ depth_image' = img
                /\ ingested' = (ingested \/ img # None)
                /\ dlog' = IF img = None THEN dlog \cup {"warn"} ELSE dlog
                /\ dpc' = "L46"
    /\ UNCHANGED <<depth_encoding, dmsg, nDepth, ivars, pvars>>

\* line 46: self.depth_image.shape
depth_callback_L46 ==
    /\ dpc = "L46"
    /\ dpc' = IF depth_image = None THEN "L49" ELSE "done"
    /\ UNCHANGED <<store, dmsg, dlog, nDepth, ivars, pvars>>

\* lines 48-50: except Exception
depth_callback_L49 ==
    /\ dpc = "L49"
    /\ dlog' = dlog \cup {"error"}
    /\ depth_image' = None
    /\ dpc' = "done"
    /\ UNCHANGED <<depth_encoding, ingested, dmsg, nDepth, ivars, pvars>>

depth_callback ==
    \/ depth_callback_enter
    \/ depth_callback_L35
    \/ depth_callback_L38
    \/ depth_callback_L46
    \/ depth_callback_L49

----------------------------------------------------------------------------
(* project_rgb_to_depth *)

\* a * b / d as <<q, r>> with a * b = q * d + r and 0 <= r < d, computed in
\* two halves of b so that no product leaves 32 bits
ScaledQuot(a, b, d) ==
    LET hi == a * (b \div 100)
        lo == (hi % d) * 100 + a * (b % 100)
    IN  <<(hi \div d) * 100 + lo \div d, lo % d>>

\* Python int(v) for v = (qr[1] + qr[2] / d + c) / 100: truncation toward zero
IntTrunc(qr, c) ==
    LET n == qr[1] + c
    IN  IF n >= 0 \/ (n % 100 = 0 /\ qr[2] = 0)
        THEN n \div 100
        ELSE n \div 100 + 1

\* variant of ReprojectX that leaves out the principal point cx_depth
ReprojectX_NoPrincipal(x) ==
    IntTrunc(ScaledQuot(100 * x - cx_rgb, fx_depth, fx_rgb), 0)

\* lines 74, 78: int((X * fx_depth / Z) + cx_depth), X = (x - cx_rgb) * Z / fx_rgb
ReprojectX(x) ==
    IntTrunc(ScaledQuot(100 * x - cx_rgb, fx_depth, fx_rgb), cx_depth)

\* lines 75, 79: int((Y * fy_depth / Z) + cy_depth), Y = (y - cy_rgb) * Z / fy_rgb
ReprojectY(y) ==
    IntTrunc(ScaledQuot(100 * y - cy_rgb, fy_depth, fy_rgb), cy_depth)

\* a * b / d as <<q, r>> with a * b = q * d + r and 0 <= r < d, for b >= 0 of
\* any size, digit by digit so that no product leaves 32 bits
RECURSIVE MulDiv(_, _, _)
MulDiv(a, b, d) ==
    IF b = 0
    THEN <<0, 0>>
    ELSE LET h == MulDiv(a, b \div 10, d)
             t == h[2] * 10 + a * (b % 10)
         IN  <<h[1] * 10 + t \div d, t % d>>

\* variant of BackProjectX that subtracts the principal point of the other axis
BackProjectX_WrongAxis(x, z) == MulDiv(100 * x - cy_rgb, z, fx_rgb)

\* line 74: X = (center_x_rgb - cx_rgb) * Z / fx_rgb, as <<q, r>> with
\* X = q + r / fx_rgb distance units
BackProjectX(x, z) == MulDiv(100 * x - cx_rgb, z, fx_rgb)

\* line 75: Y = (center_y_rgb - cy_rgb) * Z / fy_rgb, as <<q, r>> with
\* Y = q + r / fy_rgb distance units
BackProjectY(y, z) == MulDiv(100 * y - cy_rgb, z, fy_rgb)

\* variant of Reproject that takes a zero sample for a valid depth
Reproject_ZeroValid(x, y, z) ==
    IF z >= 0 THEN <<ReprojectX(x), ReprojectY(y), z>> ELSE NoDepth

\* lines 72-83: the result for a sample z read at pixel (x, y)
Reproject(x, y, z) ==
    IF z > 0 THEN <<ReprojectX(x), ReprojectY(y), z>> ELSE NoDepth

\* variant of ToExcept for an exception that no except clause catches: it
\* leaves image_callback and ends the subscriber thread
ToExcept_Uncaught ==
    /\ ipc' = "raised"

\* an exception inside image_callback's try block: control goes to line 142
ToExcept ==
    /\ ipc' = "L143"

\* line 64: if self.depth_image is None
project_L64 ==
    /\ ipc = "P64"
    /\ seen' = seen \cup {depth_image}
    /\ pseen' = pseen \cup {depth_image}
    /\ IF depth_image = None
       THEN ret' = NoDepth /\ ipc' = "L118"
       ELSE ret' = ret /\ ipc' = "P67x"
    /\ UNCHANGED <<store, dvars, imsg, results, idx, depth_vis_colored,
                   rendered_image, projected, published, ilog, nImage,
                   center_x_rgb, center_y_rgb, lookups, Z>>

\* line 67, left operand: 0 <= center_x_rgb < self.depth_image.shape[1]
project_L67x ==
    /\ ipc = "P67x"
    /\ IF ~(0 <= center_x_rgb)
       THEN ret' = NoDepth /\ ipc' = "L118" /\ UNCHANGED <<seen, pseen>>
       ELSE /\ seen' = seen \cup {depth_image}
            /\ pseen' = pseen \cup {depth_image}
            /\ IF depth_image = None
               THEN ToExcept /\ ret' = ret
               ELSE IF center_x_rgb < depth_image.shape[2]
                    THEN ret' = ret /\ ipc' = "P67y"
                    ELSE ret' = NoDepth /\ ipc' = "L118"
    /\ UNCHANGED <<store, dvars, imsg, results, idx, depth_vis_colored,
                   rendered_image, projected, published, ilog, nImage,
                   center_x_rgb, center_y_rgb, lookups, Z>>

\* line 67, right operand: 0 <= center_y_rgb < self.depth_image.shape[0]
project_L67y ==
    /\ ipc = "P67y"
    /\ IF ~(0 <= center_y_rgb)
       THEN ret' = NoDepth /\ ipc' = "L118" /\ UNCHANGED <<seen, pseen>>
       ELSE /\ seen' = seen \cup {depth_image}
            /\ pseen' = pseen \cup {depth_image}
            /\ IF depth_image = None
               THEN ToExcept /\ ret' = ret
               ELSE IF center_y_rgb < depth_image.shape[1]
                    THEN ret' = ret /\ ipc' = "P68"
                    ELSE ret' = NoDepth /\ ipc' = "L118"
    /\ UNCHANGED <<store, dvars, imsg, results, idx, depth_vis_colored,
                   rendered_image, projected, published, ilog, nImage,
                   center_x_rgb, center_y_rgb, lookups, Z>>

\* line 68: Z = self.depth_image[center_y_rgb, center_x_rgb]
project_L68 ==
    /\ ipc = "P68"
    /\ seen' = seen \cup {depth_image}
    /\ pseen' = pseen \cup {depth_image}
    /\ IF depth_image = None
       THEN ToExcept /\ UNCHANGED <<lookups, Z>>
       ELSE /\ lookups' = lookups + 1
            /\ IF /\ center_y_rgb \in DOMAIN depth_image.data
                  /\ center_x_rgb \in DOMAIN depth_image.data[center_y_rgb]
               THEN Z' = depth_image.data[center_y_rgb][center_x_rgb] /\ ipc' = "P72"
               ELSE ToExcept /\ Z' = Z
    /\ UNCHANGED <<store, dvars, imsg, results, idx, depth_vis_colored,
                   rendered_image, projected, published, ilog, nImage,
                   center_x_rgb, center_y_rgb, ret>>

\* lines 72-83: if Z > 0 ... return
project_L72 ==
    /\ ipc = "P72"
    /\ ret' = Reproject(center_x_rgb, center_y_rgb, Z)
    /\ ipc' = "L118"
    /\ UNCHANGED <<store, dvars, imsg, results, idx, depth_vis_colored,
                   rendered_image, projected, seen, published, ilog, nImage,
                   center_x_rgb, center_y_rgb, pseen, lookups, Z>>

project_rgb_to_depth ==
    \/ project_L64
    \/ project_L67x
    \/ project_L67y
    \/ project_L68
    \/ project_L72

----------------------------------------------------------------------------
(* image_callback *)

\* rospy calls image_callback(msg)
image_callback_enter ==
    /\ ipc \in {"idle", "done"}
    /\ nImage < MaxImages
    /\ \E m \in ColourMsgs : imsg' = m
    /\ ipc' = "L88"
    /\ results' = <<>>
    /\ idx' = 0
    /\ depth_vis_colored' = FALSE
    /\ rendered_image' = <<>>
    /\ projected' = <<>>
    /\ seen' = {}
    /\ published' = 0
    /\ ilog' = {}
    /\ nImage' = nImage + 1
    /\ center_x_rgb' = 0
    /\ center_y_rgb' = 0
    /\ pseen' = {}
    /\ lookups' = 0
    /\ Z' = 0
    /\ ret' = NoDepth
    /\ UNCHANGED <<store, dvars>>

\* line 88: cv_image = self.bridge.imgmsg_to_cv2(msg, "bgr8")
image_callback_L88 ==
    /\ ipc = "L88"
    /\ IF imsg.bgr8 THEN ipc' = "L93" ELSE ToExcept
    /\ UNCHANGED <<store, dvars, pvars, imsg, results, idx, depth_vis_colored,
                   rendered_image, projected, seen, published, ilog, nImage>>

\* variant of image_callback_L93 that goes on after a failed model call
image_callback_L93_Unchecked ==
    /\ ipc = "L93"
    /\ results' = imsg.xyxy
    /\ ipc' = "L98"
    /\ UNCHANGED <<store, dvars, pvars, imsg, idx, depth_vis_colored,
                   rendered_image, projected, seen, published, ilog, nImage>>

\* lines 93-96: results = self.model(cv_image); rendered_image = cv_image.copy()
image_callback_L93 ==
    /\ ipc = "L93"
    /\ IF imsg.model_ok
       THEN results' = imsg.xyxy /\ ipc' = "L98"
       ELSE results' = results /\ ToExcept
    /\ UNCHANGED <<store, dvars, pvars, imsg, idx, depth_vis_colored,
                   rendered_image, projected, seen, published, ilog, nImage>>

\* variant of image_callback_L98 that waits until a depth frame is stored
image_callback_L98_Waits ==
    /\ ipc = "L98"
    /\ depth_image # None
    /\ seen' = seen \cup {depth_image}
    /\ ipc' = "L99"
    /\ UNCHANGED <<store, dvars, pvars, imsg, results, idx, depth_vis_colored,
                   rendered_image, projected, published, ilog, nImage>>

\* line 98: if self.depth_image is not None
image_callback_L98 ==
    /\ ipc = "L98"
    /\ seen' = seen \cup {depth_image}
    /\ ipc' = IF depth_image # None THEN "L99" ELSE "L108"
    /\ UNCHANGED <<store, dvars, pvars, imsg, results, idx, depth_vis_colored,
                   rendered_image, projected, published, ilog, nImage>>

\* lines 99 and 100: np.min(self.depth_image), np.max(self.depth_image); a
\* None loaded here makes the format of line 101 raise
image_callback_L99 ==
    /\ ipc \in {"L99", "L100"}
    /\ seen' = seen \cup {depth_image}
    /\ IF depth_image = None
       THEN ToExcept
       ELSE ipc' = IF ipc = "L99" THEN "L100" ELSE "L104"
    /\ UNCHANGED <<store, dvars, pvars, imsg, results, idx, depth_vis_colored,
                   rendered_image, projected, published, ilog, nImage>>

\* lines 104-106: depth_vis_colored from cv2.normalize(self.depth_image, ...)
image_callback_L104 ==
    /\ ipc = "L104"
    /\ seen' = seen \cup {depth_image}
    /\ IF depth_image = None
       THEN ToExcept /\ depth_vis_colored' = depth_vis_colored
       ELSE ipc' = "L108" /\ depth_vis_colored' = TRUE
    /\ UNCHANGED <<store, dvars, pvars, imsg, results, idx,
                   rendered_image, projected, published, ilog, nImage>>

\* variant of image_callback_L108 without the class test of line 109
image_callback_L108_AllClasses ==
    /\ ipc = "L108"
    /\ IF idx = Len(results)
       THEN /\ ipc' = "L134"
            /\ UNCHANGED <<idx, pvars>>
       ELSE /\ idx' = idx + 1
            /\ LET d == results[idx + 1]
               IN  /\ center_x_rgb' = (d.x1 + d.x2) \div 2
                   /\ center_y_rgb' = (d.y1 + d.y2) \div 2
                   /\ pseen' = {}
                   /\ lookups' = 0
                   /\ UNCHANGED <<Z, ret>>
                   /\ ipc' = "P64"
    /\ UNCHANGED <<store, dvars, imsg, results, depth_vis_colored,
                   rendered_image, projected, seen, published, ilog, nImage>>

\* lines 108-116: next row; skip other classes; call project_rgb_to_depth
image_callback_L108 ==
    /\ ipc = "L108"
    /\ IF idx = Len(results)
       THEN /\ ipc' = "L134"
            /\ UNCHANGED <<idx, pvars>>
       ELSE /\ idx' = idx + 1
            /\ LET d == results[idx + 1]
               IN  IF d.cls # CUP
                   THEN ipc' = "L108" /\ UNCHANGED pvars
                   ELSE /\ center_x_rgb' = (d.x1 + d.x2) \div 2
                        /\ center_y_rgb' = (d.y1 + d.y2) \div 2
                        /\ pseen' = {}
                        /\ lookups' = 0
                        /\ UNCHANGED <<Z, ret>>
                        /\ ipc' = "P64"
    /\ UNCHANGED <<store, dvars, imsg, results, depth_vis_colored,
                   rendered_image, projected, seen, published, ilog, nImage>>

\* lines 116-131: unpack the result; draw when neither coordinate is -1
image_callback_L118 ==
    /\ ipc = "L118"
    /\ projected' = Append(projected, <<results[idx], ret>>)
    /\ IF ret[1] # -1 /\ ret[2] # -1
       THEN /\ rendered_image' =
                  Append(rendered_image, [box |-> results[idx], label |-> ret[3]])
            /\ IF depth_vis_colored THEN ipc' = "L108" ELSE ToExcept
       ELSE /\ rendered_image' = rendered_image
            /\ ipc' = "L108"
    /\ UNCHANGED <<store, dvars, pvars, imsg, results, idx, depth_vis_colored,
                   seen, published, ilog, nImage>>

\* lines 134-135: self.image_pub.publish(annotated_image_msg)
image_callback_L134 ==
    /\ ipc = "L134"
    /\ published' = published + 1
    /\ ipc' = "L138"
    /\ UNCHANGED <<store, dvars, pvars, imsg, results, idx, depth_vis_colored,
                   rendered_image, projected, seen, ilog, nImage>>

\* lines 138-140: cv2.imshow(..., rendered_image); cv2.imshow(..., depth_vis_colored)
image_callback_L138 ==
    /\ ipc = "L138"
    /\ IF depth_vis_colored THEN ipc' = "done" ELSE ToExcept
    /\ UNCHANGED <<store, dvars, pvars, imsg, results, idx, depth_vis_colored,
                   rendered_image, projected, seen, published, ilog, nImage>>

\* variant of image_callback_L143 that clears the depth frame in the handler,
\* as the handler of depth_callback does
image_callback_L143_Clears ==
    /\ ipc = "L143"
    /\ ilog' = ilog \cup {"error"}
    /\ depth_image' = None
    /\ ipc' = "done"
    /\ UNCHANGED <<depth_encoding, ingested, dvars, pvars, imsg, results, idx,
                   depth_vis_colored, rendered_image, projected, seen,
                   published, nImage>>

\* lines 142-143: except Exception: rospy.logerr
image_callback_L143 ==
    /\ ipc = "L143"
    /\ ilog' = ilog \cup {"error"}
    /\ ipc' = "done"
    /\ UNCHANGED <<store, dvars, pvars, imsg, results, idx, depth_vis_colored,
                   rendered_image, projected, seen, published, nImage>>

image_callback ==
    \/ image_callback_enter
    \/ image_callback_L88
    \/ image_callback_L93
    \/ image_callback_L98
    \/ image_callback_L99
    \/ image_callback_L104
    \/ image_callback_L108
    \/ image_callback_L118
    \/ image_callback_L134
    \/ image_callback_L138
    \/ image_callback_L143

----------------------------------------------------------------------------
Init ==
    /\ depth_image = None
    /\ depth_encoding = NoEncoding
    /\ ingested = FALSE
    /\ dpc = "idle"
    /\ dmsg = None
    /\ dlog = {}
    /\ nDepth = 0
    /\ ipc = "idle"
    /\ imsg = None
    /\ results = <<>>
    /\ idx = 0
    /\ depth_vis_colored = FALSE
    /\ rendered_image = <<>>
    /\ projected = <<>>
    /\ seen = {}
    /\ published = 0
    /\ ilog = {}
    /\ nImage = 0
    /\ center_x_rgb = 0
    /\ center_y_rgb = 0
    /\ pseen = {}
    /\ lookups = 0
    /\ Z = 0
    /\ ret = NoDepth

Next == depth_callback \/ project_rgb_to_depth \/ image_callback

\* the steps an image_callback invocation takes once rospy has called it
ImageRun == ipc \notin {"idle", "done"} /\ (image_callback \/ project_rgb_to_depth)

\* the steps a depth_callback invocation takes once rospy has called it
DepthRun == dpc \notin {"idle", "done"} /\ depth_callback

Spec == Init /\ [][Next]_vars
----------------------------------------------------------------------------
(* Properties *)

Supported == {"16UC1", "32FC1"}

\* depth_callback is between its entry and its return
InDepthCallback == dpc \in {"L35", "L38", "L46", "L49"}

\* C1: a depth message whose encoding is neither 16UC1 nor 32FC1 leaves the
\* stored depth frame as it was: no step of depth_callback on such a message
\* changes self.depth_image.
C1_UnsupportedKeepsFrame ==
    [][(InDepthCallback /\ dmsg.encoding \notin Supported)
          => depth_image' = depth_image]_vars

\* C2: when the conversion of a depth message raises, the stored depth frame
\* is left as it was before the call, and the callback returns with the error
\* logged.
C2_DecodeErrorKeepsFrame ==
    /\ [][(InDepthCallback /\ dmsg.encoding \in Supported
            /\ imgmsg_to_cv2(dmsg) = Raise)
              => depth_image' = depth_image]_vars
    /\ []((dpc = "done" /\ dmsg.encoding \in Supported
            /\ imgmsg_to_cv2(dmsg) = Raise) => "error" \in dlog)

\* C3: all loads of self.depth_image made while one colour frame is processed
\* return one and the same value, within one project_rgb_to_depth call and
\* across the whole image_callback invocation.
C3_OneSnapshotPerFrame ==
    /\ Cardinality(pseen) <= 1
    /\ Cardinality(seen) <= 1

\* a complete array: shape agrees with the rows and columns of the samples
WellFormed(v) ==
    /\ v.type = "ndarray"
    /\ DOMAIN v.data = 0 .. v.shape[1] - 1
    /\ \A y \in DOMAIN v.data : DOMAIN v.data[y] = 0 .. v.shape[2] - 1

\* the array a successfully ingested message m yields, sample by sample
IsFrameOf(v, m) ==
    /\ m.encoding \in Supported
    /\ Len(m.data) = m.height * m.width
    /\ v.shape = <<m.height, m.width>>
    /\ \A y \in 0 .. m.height - 1 : \A x \in 0 .. m.width - 1 :
          v.data[y][x] = m.data[y * m.width + x + 1]
                           * (IF m.encoding = "16UC1" THEN MM_TO_M ELSE 1)

\* C4: every value the colour callback loads from self.depth_image, and every
\* value the field holds, is None or the complete array of exactly one
\* ingested message; no half-written frame is visible.
C4_NoTornFrame ==
    \A v \in seen \cup {depth_image} :
        v = None \/ (WellFormed(v) /\ \E m \in DepthMsgs : IsFrameOf(v, m))

\* C4 witness: one colour frame loaded two different complete frames, so a
\* replacement fell between two of its reads
C4_Witness ==
    Cardinality(seen \ {None}) >= 2

\* C5: self.depth_image is None until a message has been ingested
\* successfully; the step that ingests message M stores exactly M's samples
\* in M's shape, 16UC1 scaled by 0.001 and 32FC1 as they are.
C5_StoreHoldsIngested ==
    /\ [](~ingested => depth_image = None)
    /\ [][(dpc = "L38" /\ dpc' = "L46" /\ dmsg.encoding \in Supported)
            => (WellFormed(depth_image') /\ IsFrameOf(depth_image', dmsg))]_vars

\* C5 witness: the second delivered message, a 16UC1 one, has just been
\* stored over what the first left
C5_Witness ==
    /\ nDepth = 2
    /\ dpc = "L46"
    /\ dmsg.encoding = "16UC1"
    /\ depth_image # None
    /\ depth_image.data[0][0] = dmsg.data[1] * MM_TO_M
    /\ dmsg.data[1] > 0
\* image_callback got through the detection model for the current frame
ModelSucceeded == imsg.bgr8 /\ imsg.model_ok

\* C6: image_pub.publish is called exactly once for every colour frame whose
\* detection-model invocation did not fail: never twice, and once by the
\* time image_callback has returned.
C6_PublishedOncePerFrame ==
    /\ published <= 1
    /\ (ipc = "done" /\ ModelSucceeded) => published = 1

\* C7: when no depth frame has ever been ingested, a colour frame is
\* processed without error: every projected detection gets NoDepth, the
\* annotated frame is published, and image_callback logs no error.
C7_NoDepthIsGraceful ==
    (ipc = "done" /\ ModelSucceeded /\ ~ingested)
        => /\ \A i \in 1 .. Len(projected) : projected[i][2] = NoDepth
           /\ published = 1
           /\ "error" \notin ilog

\* round(v) for v = (qr[1] + qr[2] / d + c) / 100, to the nearest integer
RoundNearest(qr, c) == (qr[1] + c + 50) \div 100

\* the result C8 states for pixel (x, y) and sample z > 0
RoundedProjection(x, y, z) ==
    <<RoundNearest(ScaledQuot(100 * x - cx_rgb, fx_depth, fx_rgb), cx_depth),
      RoundNearest(ScaledQuot(100 * y - cy_rgb, fy_depth, fy_rgb), cy_depth),
      z>>

\* C8: for an in-bounds pixel with sample Z > 0, project_rgb_to_depth returns
\* the depth pixel rounded to nearest and the distance Z (as (249, 172, 1.5)
\* is for pixel (640, 360) with Z = 1.5).
C8_RoundedReprojection ==
    (ipc = "L118" /\ lookups = 1 /\ Z > 0)
        => ret = RoundedProjection(center_x_rgb, center_y_rgb, Z)

\* pixel (x, y) indexes a sample of array v
InBounds(x, y, v) ==
    /\ 0 <= x /\ x < v.shape[2]
    /\ 0 <= y /\ y < v.shape[1]

\* C9: for a pixel outside the bounds of the stored depth frame (of every
\* array the call found stored), project_rgb_to_depth performs no sample
\* look-up and returns NoDepth.
C9_OutOfBoundsIsNoDepth ==
    (/\ pseen \ {None} # {}
     /\ \A v \in pseen \ {None} : ~InBounds(center_x_rgb, center_y_rgb, v))
        => /\ lookups = 0
           /\ ipc = "L118" => ret = NoDepth

\* C10: a sample Z <= 0 read at an in-bounds pixel gives NoDepth; a result
\* other than NoDepth is returned only for Z > 0, its distance is Z, and Z is
\* the sample at row y, column x of the array the look-up read.
C10_NonPositiveIsNoDepth ==
    /\ []((ipc = "L118" /\ lookups = 1 /\ Z <= 0) => ret = NoDepth)
    /\ []((ipc = "L118" /\ ret # NoDepth)
             => (lookups = 1 /\ Z > 0 /\ ret[3] = Z))
    /\ [][(ipc = "P68" /\ ipc' = "P72")
             => Z' = depth_image.data[center_y_rgb][center_x_rgb]]_vars

\* C10 witness: a look-up read a negative sample and the call returned
C10_Witness ==
    /\ ipc = "L118"
    /\ lookups = 1
    /\ Z < 0

\* the detection model raised for the current colour frame
ModelFailed == imsg.bgr8 /\ ~imsg.model_ok

\* C11: when the detection-model call fails, the frame is abandoned: nothing
\* is projected, drawn or published for it, the failing step and the handler
\* leave the depth store alone, control goes from line 93 to the handler and
\* from there to the return, and the callback runs again only for a newly
\* delivered message, from fresh locals.
C11_ModelFailureAbandonsFrame ==
    /\ []((ipc \in {"L143", "done"} /\ ModelFailed)
            => (published = 0 /\ projected = <<>> /\ rendered_image = <<>>))
    /\ []((ipc = "done" /\ ModelFailed) => "error" \in ilog)
    /\ [][(ipc = "L93" /\ ModelFailed /\ ipc' # ipc)
            => (ipc' = "L143" /\ UNCHANGED <<depth_image, depth_encoding>>)]_vars
    /\ [][(ipc = "L143" /\ ipc' # ipc)
            => (ipc' = "done" /\ UNCHANGED <<depth_image, depth_encoding>>)]_vars
    /\ [][(ipc = "done" /\ ipc' # ipc)
            => (/\ ipc' = "L88" /\ nImage' = nImage + 1
                /\ results' = <<>> /\ published' = 0 /\ ilog' = {}
                /\ projected' = <<>> /\ rendered_image' = <<>>)]_vars

\* C11 witness: image_callback has returned from a frame whose model call
\* failed, with a depth frame in the store
C11_Witness ==
    /\ ipc = "done"
    /\ ModelFailed
    /\ depth_image # None

IsCup(d) == d.cls = CUP

DepthPositions == {"idle", "L35", "L38", "L46", "L49", "done"}
ImagePositions == {"idle", "L88", "L93", "L98", "L99", "L100", "L104", "L108",
                   "P64", "P67x", "P67y", "P68", "P72", "L118", "L134", "L138",
                   "L143", "done"}

\* C13: no exception leaves a callback: an invocation is always at a
\* position inside its try/except from which its next step can be taken, the
\* handlers lead to the return, and after a return the callback accepts the
\* next message.
C13_NoErrorEscapes ==
    /\ dpc \in DepthPositions
    /\ ipc \in ImagePositions
    /\ dpc \notin {"idle", "done"} => ENABLED depth_callback
    /\ ipc \notin {"idle", "done"} => ENABLED (image_callback \/ project_rgb_to_depth)
    /\ (dpc = "done" /\ nDepth < MaxDepthMsgs) => ENABLED depth_callback_enter
    /\ (ipc = "done" /\ nImage < MaxImages) => ENABLED image_callback_enter

\* C13 witness: both callbacks have returned from an invocation that went
\* through its except branch
C13_Witness ==
    /\ dpc = "done" /\ "error" \in dlog
    /\ ipc = "done" /\ "error" \in ilog

\* the pinhole projection of C14, P * f / Z + c for P = p[1] + p[2] / f, in
\* hundredths of a pixel as <<w, r>> with value w + r / z
ColourPixel(p, f, c, z) ==
    LET m == MulDiv(p[1], f, z)
        t == m[2] + p[2]
    IN  <<m[1] + t \div z + c, t % z>>

\* v = w[1] + w[2] / z hundredths is less than one pixel away from pixel n
WithinOnePixel(w, n) ==
    /\ w[1] - 100 * n > -100
    /\ w[1] - 100 * n < 100 - (IF w[2] > 0 THEN 1 ELSE 0)

\* C14: for an in-bounds pixel (x, y) with Z > 0, the point (X, Y, Z) of
\* lines 74-75 projected back through the colour intrinsics,
\* x' = X * fx_rgb / Z + cx_rgb and y' = Y * fy_rgb / Z + cy_rgb, is less
\* than one pixel away from (x, y).
C14_BackProjectionRoundTrip ==
    (ipc = "L118" /\ lookups = 1 /\ Z > 0)
        => /\ WithinOnePixel(ColourPixel(BackProjectX(center_x_rgb, Z),
                                         fx_rgb, cx_rgb, Z), center_x_rgb)
           /\ WithinOnePixel(ColourPixel(BackProjectY(center_y_rgb, Z),
                                         fy_rgb, cy_rgb, Z), center_y_rgb)

\* C14 witness: a projection returned for the largest 16UC1 sample, 65.535 m
C14_Witness ==
    /\ ipc = "L118"
    /\ lookups = 1
    /\ Z = 65535 * MM_TO_M
    /\ ret # NoDepth

\* C15: a class-41 detection whose projection is NoDepth is still drawn on
\* the annotated frame: every projected detection with the NoDepth result
\* has its box among the annotations of rendered_image.
C15_NoDepthStillRendered ==
    \A i \in 1 .. Len(projected) :
        projected[i][2] = NoDepth
            => \E j \in 1 .. Len(rendered_image) :
                   rendered_image[j].box = projected[i][1]

\* a step of image_callback or of the project_rgb_to_depth call inside it
ImageStep == <<ivars, pvars>>' # <<ivars, pvars>>

\* C16: the depth store is written by depth_callback only: every step of
\* image_callback and project_rgb_to_depth, the exception paths included,
\* leaves self.depth_image and self.depth_encoding as they are.
C16_ImageCallbackReadsOnly ==
    [][ImageStep => UNCHANGED <<depth_image, depth_encoding>>]_vars

\* C16 witness: image_callback has returned through its except branch after
\* a projection, and the store still holds a frame
C16_Witness ==
    /\ ipc = "done"
    /\ "error" \in ilog
    /\ projected # <<>>
    /\ depth_image # None

\* the colour subscriber's thread keeps running; nothing is assumed of the
\* depth subscriber's thread or of the arrival of messages
ImageFairSpec == Spec /\ WF_vars(ImageRun)

\* the remaining steps of a depth_callback invocation, at most
DepthRank(pc) ==
    CASE pc = "L35" -> 4
      [] pc = "L38" -> 3
      [] pc = "L46" -> 2
      [] pc = "L49" -> 1
      [] OTHER -> 0

\* C17: colour processing never waits on the depth stream: when only the
\* colour callback is scheduled fairly, every started image_callback
\* invocation returns, whatever depth_callback does or fails to do; and a
\* started depth_callback can always take its next step, wherever
\* image_callback stands, and each step brings it nearer to its return.
C17_NoWaitingOnOtherStream ==
    /\ (ipc \notin {"idle", "done"}) ~> (ipc = "done")
    /\ [](dpc \notin {"idle", "done"} => ENABLED DepthRun)
    /\ [][(dpc \notin {"idle", "done"} /\ dpc' # dpc)
            => DepthRank(dpc') < DepthRank(dpc)]_vars

\* C17 witness: image_callback has returned while a depth_callback
\* invocation, the first one, stands before its store
C17_Witness ==
    /\ ipc = "done"
    /\ dpc \in {"L35", "L38"}
    /\ nDepth = 1

\* C18: the local depth_vis_colored is assigned whenever image_callback uses
\* it: when a detection with a valid projection is drawn on it (line 127)
\* and when it is displayed at the end of the frame (line 139).
C18_DepthVisAssignedWhenUsed ==
    /\ (ipc = "L118" /\ ret[1] # -1 /\ ret[2] # -1) => depth_vis_colored
    /\ ipc = "L138" => depth_vis_colored

\* C19: whenever self.depth_image is not None, self.depth_encoding is 16UC1
\* or 32FC1 and is the encoding of the message the stored frame was decoded
\* from, in the middle of a depth_callback invocation too.
C19_EncodingMatchesFrame ==
    depth_image # None
        => /\ depth_encoding \in Supported
           /\ \E m \in DepthMsgs :
                 m.encoding = depth_encoding /\ IsFrameOf(depth_image, m)

\* C20: a valid projection never looks like NoDepth: for a pixel with
\* x >= 0, y >= 0 and a sample Z > 0 neither returned coordinate is -1 (for
\* the pixel at hand and for every pixel up to MaxPixel), so the test of
\* line 118 holds of a returned triple exactly when it is not NoDepth.
C20_SentinelNeverCollides ==
    ipc = "L118"
        => /\ (ret[1] # -1 /\ ret[2] # -1) <=> (ret # NoDepth)
           /\ (lookups = 1 /\ Z > 0)
                 => /\ ret[1] # -1 /\ ret[2] # -1
                    /\ \A p \in 0 .. MaxPixel :
                          ReprojectX(p) # -1 /\ ReprojectY(p) # -1

\* C20 witness: a projection returned a valid triple to line 118
C20_Witness ==
    /\ ipc = "L118"
    /\ lookups = 1
    /\ Z > 0
    /\ ret = <<ReprojectX(center_x_rgb), ReprojectY(center_y_rgb), Z>>
    /\ center_x_rgb + center_y_rgb > 0
====
